---- MODULE Spec2Model ----
(***************************************************************************)
(* Voltage-divider solver (src/src/voltage_divider).                       *)
(*                                                                         *)
(* Numbers.  Python floats are modelled as exact rationals <<n, d>> with   *)
(* d > 0 in lowest terms: the arithmetic is the real-number arithmetic the *)
(* float operations approximate, rounding is not modelled.                 *)
(*                                                                         *)
(* Reading of the source.  solver.py calls the three-parameter helper      *)
(* tol with two arguments, tol(goal, p); constraints.compute_loss, which   *)
(* receives the same tier value p, builds tol_percent_symmetric(r, p), and *)
(* tests/test_basic.py::test_fail_case_3 needs the percent reading, so     *)
(* tol(goal, p) is modelled as tol_percent_symmetric(goal, p).  inverse.py *)
(* calls tol(1.0), modelled as tol_exact(1.0).  study_solution writes      *)
(* temp_range.min_value() on a property; it is modelled as the property    *)
(* read.                                                                   *)
(***************************************************************************)
EXTENDS Integers, Sequences, FiniteSets, TLC

(***************************************************************************)
(* Exact rationals                                                         *)
(***************************************************************************)
RECURSIVE Gcd(_, _)
Gcd(a, b) == IF b = 0 THEN a ELSE Gcd(b, a % b)

IAbs(x) == IF x < 0 THEN -x ELSE x

\* the rational n/d (d # 0) in lowest terms with a positive denominator
Q(n, d) ==
    LET g == Gcd(IAbs(n), IAbs(d))
        s == IF d < 0 THEN -1 ELSE 1
    IN  <<(s * n) \div g, (s * d) \div g>>

Z(n) == <<n, 1>>

RAdd(x, y) ==
    LET g == Gcd(x[2], y[2])
    IN  Q(x[1] * (y[2] \div g) + y[1] * (x[2] \div g), (x[2] \div g) * y[2])

RNeg(x) == <<-x[1], x[2]>>

RSub(x, y) == RAdd(x, RNeg(y))

RMul(x, y) ==
    LET g1 == Gcd(IAbs(x[1]), y[2])
        g2 == Gcd(IAbs(y[1]), x[2])
    IN  Q((x[1] \div g1) * (y[1] \div g2), (x[2] \div g2) * (y[2] \div g1))

\* 1/x, x # 0
RInv(x) == Q(x[2], x[1])

RDiv(x, y) == RMul(x, RInv(y))

\* the sign of a/b - c/d (b, d > 0), by continued-fraction expansion: the float
\* comparison <, <=, without forming a common denominator
RECURSIVE CmpFrac(_, _, _, _)
CmpFrac(a, b, c, d) ==
    LET q1 == a \div b
        q2 == c \div d
        r1 == a % b
        r2 == c % d
    IN  IF q1 # q2 THEN (IF q1 < q2 THEN -1 ELSE 1)
        ELSE IF r1 = 0 /\ r2 = 0 THEN 0
        ELSE IF r1 = 0 THEN -1
        ELSE IF r2 = 0 THEN 1
        ELSE CmpFrac(d, r2, b, r1)

RLe(x, y) == CmpFrac(x[1], x[2], y[1], y[2]) <= 0

RLt(x, y) == CmpFrac(x[1], x[2], y[1], y[2]) < 0

RAbs(x) == <<IAbs(x[1]), x[2]>>

RMax2(x, y) == IF RLe(x, y) THEN y ELSE x

RMin2(x, y) == IF RLe(x, y) THEN x ELSE y

\* Python's max(variants) / min(variants) over a four-element list
RMax4(s) == RMax2(RMax2(s[1], s[2]), RMax2(s[3], s[4]))

RMin4(s) == RMin2(RMin2(s[1], s[2]), RMin2(s[3], s[4]))

(***************************************************************************)
(* Toleranced (toleranced.py)                                              *)
(***************************************************************************)
\* Python's None for an Optional[float]: no rational has denominator 0
None == <<0, 0>>

Toleranced(typ, tol_plus, tol_minus) ==
    [typ |-> typ, tol_plus |-> tol_plus, tol_minus |-> tol_minus]

tol(typ, tol_plus, tol_minus) == Toleranced(typ, tol_plus, tol_minus)

tol_exact(typ) == tol(typ, Z(0), Z(0))

\* an operator's outcome: a value, or the exception it raises
Ok(v) == [exc |-> "", val |-> v]

Raise(e) == [exc |-> e, val |-> tol_exact(Z(0))]

\* every tier the model draws has 0 <= p <= 100, so the range check passes
tol_percent_symmetric(typ, p) ==
    LET delta == RAbs(RDiv(RMul(typ, p), Z(100)))
    IN  Toleranced(typ, delta, delta)

\* the properties max_value / min_value on an interval whose bound is present
max_value(t) == RAdd(t.typ, t.tol_plus)

min_value(t) == RSub(t.typ, t.tol_minus)

\* the property max_value as the caller sees it: raises when tol_plus is None
max_value_read(t) ==
    IF t.tol_plus # None THEN Ok(RAdd(t.typ, t.tol_plus)) ELSE Raise("ValueError")

\* a faulty variant of min_value_read: adds the lower tolerance
MinValueAdds(t) ==
    IF t.tol_minus # None THEN Ok(RAdd(t.typ, t.tol_minus)) ELSE Raise("ValueError")

\* the property min_value as the caller sees it: raises when tol_minus is None
min_value_read(t) ==
    IF t.tol_minus # None THEN Ok(RSub(t.typ, t.tol_minus)) ELSE Raise("ValueError")

full_tolerance(t) == t.tol_plus # None /\ t.tol_minus # None

\* in_range with a Toleranced argument: value nested inside self
in_range(self, value) ==
    /\ RLe(min_value(self), min_value(value))
    /\ RLe(max_value(value), max_value(self))

\* in_range with a float argument
in_range_float(self, x) == RLe(min_value(self), x) /\ RLe(x, max_value(self))

\* a faulty variant of add: reads a missing bound as 0
AddDefaultsZero(self, other) ==
    LET Magnitude(b) == IF b = None THEN Z(0) ELSE b
    IN  Ok(Toleranced(RAdd(self.typ, other.typ),
                      RAdd(Magnitude(self.tol_plus), Magnitude(other.tol_plus)),
                      RAdd(Magnitude(self.tol_minus), Magnitude(other.tol_minus))))

\* a faulty variant of add: shifts typ and keeps the bounds of self
AddKeepsSelfBounds(self, other) ==
    IF full_tolerance(self) /\ full_tolerance(other)
    THEN Ok(Toleranced(RAdd(self.typ, other.typ), self.tol_plus, self.tol_minus))
    ELSE Raise("ValueError")

\* __add__ with a Toleranced argument
add(self, other) ==
    IF full_tolerance(self) /\ full_tolerance(other)
    THEN Ok(Toleranced(RAdd(self.typ, other.typ),
                       RAdd(self.tol_plus, other.tol_plus),
                       RAdd(self.tol_minus, other.tol_minus)))
    ELSE Raise("ValueError")

\* __sub__ with a Toleranced argument
sub(self, other) ==
    IF full_tolerance(self) /\ full_tolerance(other)
    THEN Ok(Toleranced(RSub(self.typ, other.typ),
                       RAdd(self.tol_plus, other.tol_minus),
                       RAdd(self.tol_minus, other.tol_plus)))
    ELSE Raise("ValueError")

\* self + (self - tol_exact(0.0)), the inner difference evaluated first
add_sub_exact_zero(self) ==
    LET Sum(difference) ==
            IF difference.exc # "" THEN difference ELSE add(self, difference.val)
    IN  Sum(sub(self, tol_exact(Z(0))))

\* the four corner products, in the order the source lists them
variants(self, other) ==
    <<RMul(min_value(self), min_value(other)),
      RMul(min_value(self), max_value(other)),
      RMul(max_value(self), min_value(other)),
      RMul(max_value(self), max_value(other))>>

\* a faulty variant of mul: takes max*max and min*min for the extremes
MulMonotone(self, other) ==
    IF full_tolerance(self) /\ full_tolerance(other)
    THEN LET Product(typ) ==
                 Ok(Toleranced(typ,
                       RSub(RMul(max_value(self), max_value(other)), typ),
                       RSub(typ, RMul(min_value(self), min_value(other)))))
         IN  Product(RMul(self.typ, other.typ))
    ELSE Raise("ValueError")

\* __mul__ with a Toleranced argument
mul(self, other) ==
    IF full_tolerance(self) /\ full_tolerance(other)
    THEN LET Product(typ, v) ==
                 Ok(Toleranced(typ, RSub(RMax4(v), typ), RSub(typ, RMin4(v))))
         IN  Product(RMul(self.typ, other.typ), variants(self, other))
    ELSE Raise("ValueError")

\* a faulty variant of mul_float: scales the bounds without abs
MulFloatSigned(self, k) ==
    IF full_tolerance(self)
    THEN Ok(Toleranced(RMul(self.typ, k), RMul(self.tol_plus, k), RMul(self.tol_minus, k)))
    ELSE Raise("TypeError")

\* __mul__ / __rmul__ with a float argument; None * float is a TypeError
mul_float(self, k) ==
    IF full_tolerance(self)
    THEN Ok(Toleranced(RMul(self.typ, k),
                       RAbs(RMul(self.tol_plus, k)),
                       RAbs(RMul(self.tol_minus, k))))
    ELSE Raise("TypeError")

\* __sub__ with a float argument
sub_float(self, k) == Toleranced(RSub(self.typ, k), self.tol_plus, self.tol_minus)

\* __rsub__: k - self
rsub_float(self, k) ==
    IF full_tolerance(self) THEN sub(Toleranced(k, Z(0), Z(0)), self)
    ELSE Raise("ValueError")

\* the interval inv that __truediv__ builds from other (0 not in other)
reciprocal(other) ==
    LET Inv(typ) ==
            Toleranced(typ,
                       RSub(RInv(min_value(other)), typ),
                       RSub(typ, RInv(max_value(other))))
    IN  Inv(RInv(other.typ))

\* a faulty variant of truediv: raises only when typ or an endpoint of other is 0
TruedivTypOnly(self, other) ==
    IF full_tolerance(self) /\ full_tolerance(other)
    THEN IF other.typ = Z(0) \/ min_value(other) = Z(0) \/ max_value(other) = Z(0)
         THEN Raise("ZeroDivisionError")
         ELSE mul(self, reciprocal(other))
    ELSE Raise("ValueError")

\* __truediv__ with a Toleranced argument
truediv(self, other) ==
    IF full_tolerance(self) /\ full_tolerance(other)
    THEN IF in_range_float(other, Z(0))
         THEN Raise("ZeroDivisionError")
         ELSE mul(self, reciprocal(other))
    ELSE Raise("ValueError")

\* a faulty variant of min_typ_max: builds the interval without the order checks
MinTypMaxUnordered(min_val, typ_val, max_val) ==
    LET Mid(t) == tol(t, RSub(max_val, t), RSub(t, min_val))
    IN  IF typ_val # None /\ min_val # None /\ max_val # None
        THEN Ok(tol(typ_val, RSub(max_val, typ_val), RSub(typ_val, min_val)))
        ELSE IF min_val # None /\ max_val # None
        THEN Ok(Mid(RAdd(min_val, RMul(Q(1, 2), RSub(max_val, min_val)))))
        ELSE IF typ_val # None /\ min_val # None
        THEN Ok(tol(typ_val, None, RSub(typ_val, min_val)))
        ELSE IF typ_val # None /\ max_val # None
        THEN Ok(tol(typ_val, RSub(max_val, typ_val), None))
        ELSE Raise("ValueError")

\* min_typ_max(min_val, typ_val, max_val); an absent argument is None
min_typ_max(min_val, typ_val, max_val) ==
    LET Mid(t) == tol(t, RSub(max_val, t), RSub(t, min_val))
    IN  IF typ_val # None /\ min_val # None /\ max_val # None
        THEN IF RLt(typ_val, min_val) \/ RLt(max_val, typ_val)
             THEN Raise("ValueError")
             ELSE Ok(tol(typ_val, RSub(max_val, typ_val), RSub(typ_val, min_val)))
        ELSE IF min_val # None /\ max_val # None
        THEN IF RLt(max_val, min_val)
             THEN Raise("ValueError")
             ELSE Ok(Mid(RAdd(min_val, RMul(Q(1, 2), RSub(max_val, min_val)))))
        ELSE IF typ_val # None /\ min_val # None
        THEN IF RLt(typ_val, min_val)
             THEN Raise("ValueError")
             ELSE Ok(tol(typ_val, None, RSub(typ_val, min_val)))
        ELSE IF typ_val # None /\ max_val # None
        THEN IF RLt(max_val, typ_val)
             THEN Raise("ValueError")
             ELSE Ok(tol(typ_val, RSub(max_val, typ_val), None))
        ELSE Raise("ValueError")

\* min_typ_max(self.min_value, self.typ, self.max_value): what apply computes
\* for the identity function, arguments evaluated left to right
rebuild(self) ==
    LET Build(lo, hi) ==
            IF lo.exc # "" THEN lo
            ELSE IF hi.exc # "" THEN hi
            ELSE min_typ_max(lo.val, self.typ, hi.val)
    IN  Build(min_value_read(self), max_value_read(self))

\* __truediv__ with a float argument; None / float is a TypeError
truediv_float(self, k) ==
    IF k = Z(0) THEN Raise("ZeroDivisionError")
    ELSE IF RLt(k, Z(0)) THEN Raise("ValueError")
    ELSE IF full_tolerance(self)
    THEN Ok(Toleranced(RDiv(self.typ, k), RDiv(self.tol_plus, k), RDiv(self.tol_minus, k)))
    ELSE Raise("TypeError")

(***************************************************************************)
(* Constraints (constraints.py, inverse.py)                                *)
(***************************************************************************)
\* an absent Optional[Toleranced] (temp_range = None)
NoT == Toleranced(None, None, None)

\* sorted(prec_series, reverse=True): insertion into a descending sequence
RECURSIVE InsertDesc(_, _)
InsertDesc(x, s) ==
    IF s = <<>> THEN <<x>>
    ELSE IF RLt(s[1], x) THEN <<x>> \o s
    ELSE <<s[1]>> \o InsertDesc(x, Tail(s))

\* a faulty variant of sorted_reverse: keeps the order given
SortedAsGiven(s) == s

RECURSIVE sorted_reverse(_)
sorted_reverse(s) ==
    IF s = <<>> THEN <<>> ELSE InsertDesc(s[Len(s)], sorted_reverse(SubSeq(s, 1, Len(s) - 1)))

\* ensure_sources_limits raises ValueError
ensure_sources_limits_raises(min_sources, query_limit) == min_sources > query_limit

\* the dataclass after __post_init__ (both variants run the same two lines)
Constraints(inverse, v_in, v_out, current, prec_series, min_sources, query_limit, temp_range) ==
    [inverse |-> inverse, v_in |-> v_in, v_out |-> v_out, current |-> current,
     prec_series |-> sorted_reverse(prec_series),
     min_sources |-> min_sources, query_limit |-> query_limit,
     temp_range |-> temp_range]

\* the value of the variable cons before a Constraints value exists
NoCons == Constraints(FALSE, NoT, NoT, Z(0), <<>>, 0, 0, NoT)

\* a + k for a float k (__add__ / __radd__ with a scalar)
add_float(self, k) == Toleranced(RAdd(self.typ, k), self.tol_plus, self.tol_minus)

\* VoltageDividerConstraints.compute_objective: v_in * r_lo / (r_lo + r_hi)
forward_objective(c, rh, rl, hi_dr, lo_dr) ==
    LET Quotient(num, den) ==
            IF num.exc # "" THEN num
            ELSE IF den.exc # "" THEN den
            ELSE truediv(num.val, den.val)
        Vout(r_hi, r_lo) ==
            IF r_hi.exc # "" THEN r_hi
            ELSE IF r_lo.exc # "" THEN r_lo
            ELSE Quotient(mul(c.v_in, r_lo.val), add(r_lo.val, r_hi.val))
    IN  Vout(mul(rh, hi_dr), mul(rl, lo_dr))

\* InverseDividerConstraints.compute_objective: v_in * (1.0 + r_hi / r_lo)
inverse_objective(c, rh, rl, hi_dr, lo_dr) ==
    LET Scaled(q) ==
            IF q.exc # "" THEN q
            ELSE mul(c.v_in, add_float(q.val, Z(1)))
        Vout(r_hi, r_lo) ==
            IF r_hi.exc # "" THEN r_hi
            ELSE IF r_lo.exc # "" THEN r_lo
            ELSE Scaled(truediv(r_hi.val, r_lo.val))
    IN  Vout(mul(rh, hi_dr), mul(rl, lo_dr))

compute_objective(c, rh, rl, hi_dr, lo_dr) ==
    IF c.inverse THEN inverse_objective(c, rh, rl, hi_dr, lo_dr)
    ELSE forward_objective(c, rh, rl, hi_dr, lo_dr)

\* compute_objective with the default drifts tol_exact(1.0)
objective(c, rh, rl) == compute_objective(c, rh, rl, tol_exact(Z(1)), tol_exact(Z(1)))

is_compliant(c, v_obj) == in_range(c.v_out, v_obj)

\* compute_initial_guess: <<r_hi, r_lo>>
compute_initial_guess(c) ==
    IF c.inverse
    THEN <<RDiv(RSub(c.v_out.typ, c.v_in.typ), c.current), RDiv(c.v_in.typ, c.current)>>
    ELSE <<RDiv(RSub(c.v_in.typ, c.v_out.typ), c.current), RDiv(c.v_out.typ, c.current)>>

\* compute_loss: [exc, some, loss]; some = FALSE is Python's None
compute_loss(c, rh, rl, precision) ==
    LET Loss(vo) ==
            IF vo.exc # "" THEN [exc |-> vo.exc, some |-> FALSE, loss |-> Z(0)]
            ELSE IF is_compliant(c, vo.val)
                 THEN [exc |-> "", some |-> TRUE, loss |-> RAbs(RSub(c.v_out.typ, vo.val.typ))]
                 ELSE [exc |-> "", some |-> FALSE, loss |-> Z(0)]
    IN  Loss(objective(c, tol_percent_symmetric(rh, precision),
                          tol_percent_symmetric(rl, precision)))

(***************************************************************************)
(* Catalog records and the temperature study (solver.py)                   *)
(***************************************************************************)
\* a Part: tolerance is None, a float t (min = max = t) or a MinMax; tcr may be None
Part(resistance, tolkind, tmin, tmax, has_tcr, pos, neg) ==
    [resistance |-> resistance,
     tolerance |-> [kind |-> tolkind, min |-> tmin, max |-> tmax],
     tcr |-> [some |-> has_tcr, pos |-> pos, neg |-> neg]]

NoPart == Part(Z(0), "None", Z(0), Z(0), FALSE, Z(0), Z(0))

get_resistance(r) ==
    IF r.tolerance.kind = "MinMax"
    THEN tol(r.resistance, RAbs(RMul(r.tolerance.max, r.resistance)),
                           RAbs(RMul(r.tolerance.min, r.resistance)))
    ELSE IF r.tolerance.kind = "float"
    THEN tol(r.resistance, RAbs(RMul(r.tolerance.max, r.resistance)),
                           RAbs(RMul(r.tolerance.max, r.resistance)))
    ELSE tol(r.resistance, Z(0), Z(0))

ref_temp == Z(25)

\* compute_tcr_deviation: [some, val]; some = FALSE is Python's None
compute_tcr_deviation(resistor, temperature) ==
    IF ~resistor.tcr.some THEN [some |-> FALSE, val |-> NoT]
    ELSE LET diff == RSub(temperature, ref_temp)
         IN  [some |-> TRUE,
              val |-> Toleranced(Z(1), RAbs(RMul(diff, resistor.tcr.pos)),
                                       RAbs(RMul(diff, resistor.tcr.neg)))]

\* the loop of study_solution from index i on: [exc, vos]
RECURSIVE study_loop(_, _, _, _, _, _)
study_loop(c, r_hi_val, r_lo_val, hi_drs, lo_drs, i) ==
    IF i > Len(lo_drs) THEN [exc |-> "", vos |-> <<>>]
    ELSE IF lo_drs[i].some /\ hi_drs[i].some
    THEN LET Collect(vout, rest) ==
                 IF vout.exc # "" THEN [exc |-> vout.exc, vos |-> <<>>]
                 ELSE IF rest.exc # "" THEN rest
                 ELSE [exc |-> "", vos |-> <<vout.val>> \o rest.vos]
         IN  Collect(compute_objective(c, r_hi_val, r_lo_val, hi_drs[i].val, lo_drs[i].val),
                     study_loop(c, r_hi_val, r_lo_val, hi_drs, lo_drs, i + 1))
    ELSE [exc |-> "ValueError: No TCR Data", vos |-> <<>>]

\* a faulty variant of study_solution: a part without tcr yields a non-compliant
\* objective instead of the ValueError, so the pair is skipped
StudySkipsMissingTcr(c, r_hi, r_lo, temp_range) ==
    LET t == IF temp_range = NoT THEN Toleranced(Z(25), Z(0), Z(0)) ELSE temp_range
        lo_drs == <<compute_tcr_deviation(r_lo, min_value(t)), compute_tcr_deviation(r_lo, max_value(t))>>
        hi_drs == <<compute_tcr_deviation(r_hi, min_value(t)), compute_tcr_deviation(r_hi, max_value(t))>>
    IN  IF \E i \in 1..2 : ~lo_drs[i].some \/ ~hi_drs[i].some
        THEN [exc |-> "", vos |-> <<Toleranced(RAdd(max_value(c.v_out), Z(1)), Z(0), Z(0))>>]
        ELSE study_loop(c, get_resistance(r_hi), get_resistance(r_lo), hi_drs, lo_drs, 1)

\* study_solution: [exc, vos], the objectives at min and max temperature
study_solution(c, r_hi, r_lo, temp_range) ==
    LET t == IF temp_range = NoT THEN Toleranced(Z(25), Z(0), Z(0)) ELSE temp_range
        lo_drs == <<compute_tcr_deviation(r_lo, min_value(t)), compute_tcr_deviation(r_lo, max_value(t))>>
        hi_drs == <<compute_tcr_deviation(r_hi, min_value(t)), compute_tcr_deviation(r_hi, max_value(t))>>
    IN  study_loop(c, get_resistance(r_hi), get_resistance(r_lo), hi_drs, lo_drs, 1)

\* a faulty variant of all_valid: any(vo_valids)
AnyCompliant(c, vo_set) == \E i \in 1..Len(vo_set) : is_compliant(c, vo_set[i])

\* all(vo_valids)
all_valid(c, vo_set) == \A i \in 1..Len(vo_set) : is_compliant(c, vo_set[i])

(***************************************************************************)
(* Ranking of candidate pairs (sort_pairs_by_best_fit)                     *)
(***************************************************************************)
Ratio(high, low, loss) == [high |-> high, low |-> low, loss |-> loss]

\* list.sort(key=loss) is stable: x goes behind every element of loss <= x.loss
RECURSIVE InsertByLoss(_, _)
InsertByLoss(x, s) ==
    IF s = <<>> THEN <<x>>
    ELSE IF RLt(x.loss, s[1].loss) THEN <<x>> \o s
    ELSE <<s[1]>> \o InsertByLoss(x, Tail(s))

\* a faulty variant of SortByLoss: leaves the pairs in the order of the double loop
KeepLoopOrder(s) == s

RECURSIVE SortByLoss(_)
SortByLoss(s) ==
    IF s = <<>> THEN <<>> ELSE InsertByLoss(s[Len(s)], SortByLoss(SubSeq(s, 1, Len(s) - 1)))

\* the double loop, hi-major, as one index k over the cross product
RECURSIVE PairsFrom(_, _, _, _, _)
PairsFrom(c, precision, hi_res, lo_res, k) ==
    IF k > Len(hi_res) * Len(lo_res) THEN <<>>
    ELSE LET Keep(rh, rl, l, rest) ==
                 IF l.some THEN <<Ratio(rh, rl, l.loss)>> \o rest ELSE rest
             Pair(rh, rl) ==
                 Keep(rh, rl, compute_loss(c, rh, rl, precision),
                      PairsFrom(c, precision, hi_res, lo_res, k + 1))
         IN  Pair(hi_res[((k - 1) \div Len(lo_res)) + 1],
                  lo_res[((k - 1) % Len(lo_res)) + 1])

\* the exception compute_loss raises for some pair, "" when none does
PairsExc(c, precision, hi_res, lo_res) ==
    IF \E i \in 1..Len(hi_res), j \in 1..Len(lo_res) :
           compute_loss(c, hi_res[i], lo_res[j], precision).exc # ""
    THEN "ZeroDivisionError" ELSE ""

sort_pairs_by_best_fit(c, precision, hi_res, lo_res) ==
    SortByLoss(PairsFrom(c, precision, hi_res, lo_res, 1))

(***************************************************************************)
(* State                                                                   *)
(***************************************************************************)
VARIABLES
    given,       \* the arguments the constructor was called with
    pc,          \* position: "new", "config_error", "constructed", "screen",
                 \* "pre_screen", "series", "pairs", "done"
    cons,        \* the Constraints value handed to solve
    goals,       \* solve: <<goal_r_hi, goal_r_lo>>
    vin_screen,  \* solve: outcome of the ideal-screen objective
    pre_screen,  \* solve: the list of [ok, prec] built by the pre-screen
    series,      \* solve: prec_series[first_valid_series:]
    tier,        \* index into series of the tier the for loop is at
    ratios,      \* solve_over_series: the ranked pairs of the current tier
    cand,        \* index into ratios of the pair the for loop is at
    r_his,       \* filter_query_results: the parts returned for ratio.high, kept from
                 \* the call that ended solve (empty once a call returns None)
    r_los,       \* filter_query_results: the parts returned for ratio.low, likewise
    vo_set,      \* filter_query_results: the objectives of the temperature study, likewise
    missing_tcr, \* history: the last pair studied had a representative part without tcr
    result,      \* what solve returned or raised
    visited,     \* history: the tiers solve_over_series was called with
    outcomes,    \* history: per visited tier "pending", "none", "solution", "raised"
    n_queries,   \* history: number of search_resistors calls made
    hi_res,      \* solve_over_series: the resistances returned around goal_r_hi, kept
                 \* until the loop over the ranked pairs takes its first step (they
                 \* are not read after sort_pairs_by_best_fit has returned)
    lo_res,      \* solve_over_series: the resistances returned around goal_r_lo, likewise
    examined,    \* history: the ratios handed to filter_query_results in this tier
    calls,       \* history: the search_resistors calls made, in order
    arith_op,    \* which Toleranced operator was applied ("" before)
    arith_a,     \* its left operand (for min_typ_max, its three arguments)
    arith_b,     \* its right operand
    arith_out,   \* its outcome
    arith_steps  \* how many operators have been applied one after another

solver_vars == <<given, pc, cons, goals, vin_screen, pre_screen, series, tier, ratios, cand,
                 r_his, r_los, vo_set, missing_tcr, result, visited, outcomes, n_queries,
                 hi_res, lo_res, examined, calls>>

arith_vars == <<arith_op, arith_a, arith_b, arith_out, arith_steps>>

vars == <<given, pc, cons, goals, vin_screen, pre_screen, series, tier, ratios, cand,
          r_his, r_los, vo_set, missing_tcr, result, visited, outcomes, n_queries,
          hi_res, lo_res, examined, calls,
          arith_op, arith_a, arith_b, arith_out, arith_steps>>

Args(prec_series, min_sources, query_limit) ==
    [prec_series |-> prec_series, min_sources |-> min_sources, query_limit |-> query_limit]

NoArgs == Args(<<>>, 0, 0)

\* the result of solve: nothing yet, a VoltageDividerSolution, or an exception
NoResult == [kind |-> "none", err |-> "", R_h |-> NoPart, R_l |-> NoPart, vo |-> NoT]

Solution(R_h, R_l, vo) == [kind |-> "solution", err |-> "", R_h |-> R_h, R_l |-> R_l, vo |-> vo]

Raised(e) == [kind |-> "error", err |-> e, R_h |-> NoPart, R_l |-> NoPart, vo |-> NoT]

(***************************************************************************)
(* Inputs                                                                  *)
(***************************************************************************)
MaxSources == 2
MaxLimit == 2
MaxTyp == 2
MaxTol == 2
MaxChain == 2

\* <<v_in, v_out>> as Toleranced values
Scenarios ==
    { <<Toleranced(Z(10), <<1, 10>>, <<1, 10>>), Toleranced(<<5, 2>>, <<1, 8>>, <<1, 8>>)>>,
      <<Toleranced(Z(10), <<1, 10>>, <<1, 10>>), Toleranced(<<25, 2>>, <<1, 8>>, <<1, 8>>)>>,
      <<Toleranced(Z(10), Z(1), Z(1)), Toleranced(<<5, 2>>, <<1, 400>>, <<1, 400>>)>>,
      <<Toleranced(Z(8), <<1, 2>>, <<1, 2>>), Toleranced(Z(2), <<2, 5>>, <<2, 5>>)>>,
      <<Toleranced(Z(2), <<1, 8>>, <<1, 8>>), Toleranced(Z(8), Z(1), Z(1))>>,
      <<Toleranced(Z(8), <<1, 2>>, <<1, 2>>), Toleranced(Z(8), <<1, 4>>, <<1, 4>>)>>,
      <<Toleranced(Z(0), <<1, 10>>, <<1, 10>>), Toleranced(Z(0), <<1, 2>>, <<1, 2>>)>> }

Current == Z(2)

PrecInputs ==
    { <<Z(20), Z(10), Z(5)>>, <<Z(5), Z(20)>>, <<Z(2), Z(10), Z(5)>> }

TempRanges ==
    { NoT, Toleranced(<<25, 2>>, <<25, 2>>, <<25, 2>>) }

DistinctSeqs(S, n) ==
    { q \in UNION { [1..m -> S] : m \in 0..n } :
        \A i, j \in 1..Len(q) : i # j => q[i] # q[j] }

\* what the catalog may answer to a distinct-resistance query around goal_r
ResistanceMenu(goal_r) == { goal_r, RMul(goal_r, <<21, 20>>) }

DistinctAnswers(goal_r, limit) ==
    DistinctSeqs(ResistanceMenu(goal_r), limit)

\* the parts the catalog holds at a value and tolerance tier: one with a symmetric
\* tolerance, one with a MinMax tolerance and a large coefficient, one without data
Stock(target, prec) ==
    << Part(target, "float", RDiv(prec, Z(100)), RDiv(prec, Z(100)), TRUE, <<1, 2500>>, <<1, 2500>>),
       Part(target, "MinMax", RNeg(RDiv(prec, Z(200))), RDiv(prec, Z(100)), TRUE, <<1, 500>>, <<1, 1000>>),
       Part(target, "None", Z(0), Z(0), FALSE, Z(0), Z(0)) >>

\* an answer to a full-part query: n records, the stock listed from its k-th entry on
PartAnswer(stock, k, n) ==
    [i \in 1..n |-> stock[((k + i - 2) % Len(stock)) + 1]]

PartAnswers(target, prec, limit) ==
    { PartAnswer(Stock(target, prec), k, n) : k \in 1..Len(Stock(target, prec)), n \in 0..limit }

(***************************************************************************)
(* Construction and solve                                                  *)
(***************************************************************************)
ArithIdle ==
    /\ arith_op = ""
    /\ arith_a = NoT
    /\ arith_b = NoT
    /\ arith_out = Ok(NoT)
    /\ arith_steps = 0

SolverIdle ==
    /\ given = NoArgs
    /\ pc = "new"
    /\ cons = NoCons
    /\ goals = <<Z(0), Z(0)>>
    /\ vin_screen = Ok(NoT)
    /\ pre_screen = <<>>
    /\ series = <<>>
    /\ tier = 0
    /\ ratios = <<>>
    /\ cand = 0
    /\ r_his = <<>>
    /\ r_los = <<>>
    /\ vo_set = <<>>
    /\ missing_tcr = FALSE
    /\ result = NoResult
    /\ visited = <<>>
    /\ outcomes = <<>>
    /\ n_queries = 0
    /\ hi_res = <<>>
    /\ lo_res = <<>>
    /\ examined = <<>>
    /\ calls = <<>>

Init == SolverIdle /\ ArithIdle

\* VoltageDividerConstraints(...) / InverseDividerConstraints(...): __post_init__
New(inverse, v_in, v_out, current, prec_series, min_sources, query_limit, temp_range) ==
    /\ pc = "new"
    /\ given' = Args(prec_series, min_sources, query_limit)
    /\ IF ensure_sources_limits_raises(min_sources, query_limit)
       THEN /\ pc' = "config_error"
            /\ cons' = NoCons
       ELSE /\ pc' = "constructed"
            /\ cons' = Constraints(inverse, v_in, v_out, current, prec_series,
                                   min_sources, query_limit, temp_range)
    /\ UNCHANGED <<goals, vin_screen, pre_screen, series, tier, ratios, cand, r_his,
                   r_los, vo_set, missing_tcr, result, visited, outcomes, n_queries,
                   hi_res, lo_res, examined, calls>>
    /\ UNCHANGED arith_vars

Construct ==
    \E inverse \in BOOLEAN, sc \in Scenarios, prec_series \in PrecInputs,
       min_sources \in 1..MaxSources, query_limit \in 1..MaxLimit, temp_range \in TempRanges :
        New(inverse, sc[1], sc[2], Current, prec_series, min_sources, query_limit, temp_range)

\* the sign test of solve on one goal
rejects_goal(g) == RLt(g, Z(0))

\* solve, lines 36-41: initial guess and sign check
InitialGuess ==
    /\ pc = "constructed"
    /\ goals' = compute_initial_guess(cons)
    /\ IF rejects_goal(goals'[1]) \/ rejects_goal(goals'[2])
       THEN /\ result' = Raised("IncompatibleVinVoutError")
            /\ pc' = "done"
       ELSE /\ result' = result
            /\ pc' = "screen"
    /\ UNCHANGED <<given, cons, vin_screen, pre_screen, series, tier, ratios, cand, r_his,
                   r_los, vo_set, missing_tcr, visited, outcomes, n_queries,
                   hi_res, lo_res, examined, calls>>
    /\ UNCHANGED arith_vars

\* a faulty variant of screen_rejects: the ideal screen lets everything through
ScreenNever(c, v) == FALSE

\* the ideal screen rejects
screen_rejects(c, v) == ~is_compliant(c, v)

\* solve, lines 42-45: screen with perfect resistors
IdealScreen ==
    /\ pc = "screen"
    /\ vin_screen' = objective(cons, tol_percent_symmetric(goals[1], Z(0)),
                                     tol_percent_symmetric(goals[2], Z(0)))
    /\ IF vin_screen'.exc # ""
       THEN /\ result' = Raised(vin_screen'.exc)
            /\ pc' = "done"
       ELSE IF screen_rejects(cons, vin_screen'.val)
       THEN /\ result' = Raised("VinRangeTooLargeError")
            /\ pc' = "done"
       ELSE /\ result' = result
            /\ pc' = "pre_screen"
    /\ UNCHANGED <<given, cons, goals, pre_screen, series, tier, ratios, cand, r_his,
                   r_los, vo_set, missing_tcr, visited, outcomes, n_queries,
                   hi_res, lo_res, examined, calls>>
    /\ UNCHANGED arith_vars

\* a faulty variant of pre_screen_entry: evaluates the tier at half its percentage
PreScreenLooser(c, g, std_prec) ==
    LET Entry(vo) ==
            [exc |-> vo.exc, ok |-> vo.exc = "" /\ is_compliant(c, vo.val), prec |-> std_prec]
    IN  Entry(objective(c, tol_percent_symmetric(g[1], RDiv(std_prec, Z(2))),
                           tol_percent_symmetric(g[2], RDiv(std_prec, Z(2)))))

\* one entry of pre_screen: [exc, ok, prec]
pre_screen_entry(c, g, std_prec) ==
    LET Entry(vo) ==
            [exc |-> vo.exc, ok |-> vo.exc = "" /\ is_compliant(c, vo.val), prec |-> std_prec]
    IN  Entry(objective(c, tol_percent_symmetric(g[1], std_prec),
                           tol_percent_symmetric(g[2], std_prec)))

\* a faulty variant of first_valid_series: the first tier, compliant or not
FirstTierRegardless(ps) == IF ps = <<>> THEN 0 ELSE 1

\* a faulty variant of first_valid_series: one past the first compliant entry
FirstValidOffByOne(ps) ==
    IF \E i \in 1..Len(ps) : ps[i].ok
    THEN (CHOOSE i \in 1..Len(ps) : ps[i].ok /\ \A j \in 1..(i - 1) : ~ps[j].ok) + 1
    ELSE 0

\* next((i for i, elem in enumerate(pre_screen) if elem[0]), None), 1-based; 0 is None
first_valid_series(ps) ==
    IF \E i \in 1..Len(ps) : ps[i].ok
    THEN CHOOSE i \in 1..Len(ps) : ps[i].ok /\ \A j \in 1..(i - 1) : ~ps[j].ok
    ELSE 0

\* solve, lines 46-55: pre-screen of the precision series
PreScreen ==
    /\ pc = "pre_screen"
    /\ pre_screen' = [i \in 1..Len(cons.prec_series) |->
                         pre_screen_entry(cons, goals, cons.prec_series[i])]
    /\ IF \E i \in 1..Len(pre_screen') : pre_screen'[i].exc # ""
       THEN /\ result' = Raised("ZeroDivisionError")
            /\ pc' = "done"
            /\ UNCHANGED <<series, tier>>
       ELSE IF first_valid_series(pre_screen') # 0
       THEN /\ series' = SubSeq(cons.prec_series, first_valid_series(pre_screen'),
                                Len(cons.prec_series))
            /\ tier' = 1
            /\ pc' = "series"
            /\ result' = result
       ELSE /\ result' = Raised("NoPrecisionSatisfiesConstraintsError")
            /\ pc' = "done"
            /\ UNCHANGED <<series, tier>>
    /\ UNCHANGED <<given, cons, goals, vin_screen, ratios, cand, r_his, r_los, vo_set, missing_tcr,
                   visited, outcomes, n_queries,
                   hi_res, lo_res, examined, calls>>
    /\ UNCHANGED arith_vars

\* one search_resistors call: a distinct-resistance query or a full-part query
Call(kind, prec) == [kind |-> kind, prec |-> prec]

\* solve line 57-58 entering solve_over_series (lines 64-67) for series[tier]
SolveOverSeries ==
    /\ pc = "series"
    /\ tier <= Len(series)
    /\ \E hi_answer \in DistinctAnswers(goals[1], cons.query_limit),
          lo_answer \in DistinctAnswers(goals[2], cons.query_limit) :
          /\ n_queries' = n_queries + 2
          /\ calls' = calls \o <<Call("distinct", series[tier]), Call("distinct", series[tier])>>
          /\ hi_res' = hi_answer
          /\ lo_res' = lo_answer
          /\ visited' = Append(visited, series[tier])
          /\ IF PairsExc(cons, series[tier], hi_answer, lo_answer) # ""
             THEN /\ result' = Raised("ZeroDivisionError")
                  /\ pc' = "done"
                  /\ outcomes' = Append(outcomes, "raised")
                  /\ UNCHANGED <<ratios, cand>>
             ELSE /\ ratios' = sort_pairs_by_best_fit(cons, series[tier], hi_answer, lo_answer)
                  /\ cand' = 1
                  /\ pc' = "pairs"
                  /\ outcomes' = Append(outcomes, "pending")
                  /\ result' = result
    /\ r_his' = <<>>
    /\ r_los' = <<>>
    /\ vo_set' = <<>>
    /\ missing_tcr' = FALSE
    /\ examined' = <<>>
    /\ UNCHANGED <<given, cons, goals, vin_screen, pre_screen, series, tier>>
    /\ UNCHANGED arith_vars

SetLast(s, v) == [s EXCEPT ![Len(s)] = v]

\* the min_sources gate of filter_query_results lets the pair through
sources_ok(his, los, min_srcs) == ~(Len(his) < min_srcs \/ Len(los) < min_srcs)

\* a faulty variant of representative: the last record of the answer
LastOf(parts) == parts[Len(parts)]

\* the representative part taken from a non-empty answer
representative(parts) == parts[1]

\* a faulty variant of worst_case_vo: the objective at the last temperature point
LastVo(vos) == vos[Len(vos)]

\* worst_case_vo = vo_set[0]
worst_case_vo(vos) == vos[1]

\* solve_over_series line 67-70 calling filter_query_results (lines 73-88)
FilterQueryResults ==
    /\ pc = "pairs"
    /\ cand <= Len(ratios)
    /\ \E his \in PartAnswers(ratios[cand].high, series[tier], cons.query_limit),
          los \in PartAnswers(ratios[cand].low, series[tier], cons.query_limit) :
          /\ n_queries' = n_queries + 2
          /\ calls' = calls \o <<Call("parts", series[tier]), Call("parts", series[tier])>>
          /\ IF ~sources_ok(his, los, cons.min_sources)
             THEN /\ cand' = cand + 1
                  /\ r_his' = <<>>
                  /\ r_los' = <<>>
                  /\ vo_set' = <<>>
                  /\ missing_tcr' = FALSE
                  /\ UNCHANGED <<pc, result, outcomes>>
             ELSE LET Studied(r_hi_cmp, r_lo_cmp, study) ==
                          IF study.exc # ""
                          THEN /\ result' = Raised(study.exc)
                               /\ pc' = "done"
                               /\ outcomes' = SetLast(outcomes, "raised")
                               /\ r_his' = his
                               /\ r_los' = los
                               /\ vo_set' = <<>>
                               /\ missing_tcr' = (~r_hi_cmp.tcr.some \/ ~r_lo_cmp.tcr.some)
                               /\ cand' = cand
                          ELSE IF ~all_valid(cons, study.vos)
                          THEN /\ cand' = cand + 1
                               /\ r_his' = <<>>
                               /\ r_los' = <<>>
                               /\ vo_set' = <<>>
                               /\ missing_tcr' = (~r_hi_cmp.tcr.some \/ ~r_lo_cmp.tcr.some)
                               /\ UNCHANGED <<pc, result, outcomes>>
                          ELSE /\ result' = Solution(r_hi_cmp, r_lo_cmp, worst_case_vo(study.vos))
                               /\ pc' = "done"
                               /\ outcomes' = SetLast(outcomes, "solution")
                               /\ r_his' = his
                               /\ r_los' = los
                               /\ vo_set' = study.vos
                               /\ missing_tcr' = (~r_hi_cmp.tcr.some \/ ~r_lo_cmp.tcr.some)
                               /\ cand' = cand
                  IN  Studied(representative(his), representative(los),
                              study_solution(cons, representative(his), representative(los),
                                             cons.temp_range))
    /\ examined' = Append(examined, ratios[cand])
    /\ hi_res' = <<>>
    /\ lo_res' = <<>>
    /\ UNCHANGED <<given, cons, goals, vin_screen, pre_screen, series, tier, ratios, visited>>
    /\ UNCHANGED arith_vars

\* solve_over_series line 71 (return None) and the next round of the loop at line 57
NextTier ==
    /\ pc = "pairs"
    /\ cand > Len(ratios)
    /\ outcomes' = SetLast(outcomes, "none")
    /\ tier' = tier + 1
    /\ pc' = "series"
    /\ hi_res' = <<>>
    /\ lo_res' = <<>>
    /\ UNCHANGED <<given, cons, goals, vin_screen, pre_screen, series, ratios, cand, r_his,
                   r_los, vo_set, missing_tcr, result, visited, n_queries, examined, calls>>
    /\ UNCHANGED arith_vars

\* solve line 61: the loop over series ran out
NoSolutionFound ==
    /\ pc = "series"
    /\ tier > Len(series)
    /\ result' = Raised("NoSolutionFoundError")
    /\ pc' = "done"
    /\ UNCHANGED <<given, cons, goals, vin_screen, pre_screen, series, tier, ratios, cand, r_his,
                   r_los, vo_set, missing_tcr, visited, outcomes, n_queries,
                   hi_res, lo_res, examined, calls>>
    /\ UNCHANGED arith_vars

Next ==
    \/ Construct
    \/ InitialGuess
    \/ IdealScreen
    \/ PreScreen
    \/ SolveOverSeries
    \/ FilterQueryResults
    \/ NextTier
    \/ NoSolutionFound

Spec == Init /\ [][Next]_vars

(***************************************************************************)
(* solve with a temperature range set: the default or the caller's own     *)
(***************************************************************************)
\* a range given by the caller whose maximum is further from the reference
\* temperature than its minimum: 15..50 degrees
CallerRanges == { Toleranced(<<65, 2>>, <<35, 2>>, <<35, 2>>) }

ConstructWithRange ==
    \E inverse \in BOOLEAN, sc \in Scenarios, prec_series \in PrecInputs,
       min_sources \in 1..MaxSources, query_limit \in 1..MaxLimit,
       temp_range \in (TempRanges \ {NoT}) \cup CallerRanges :
        New(inverse, sc[1], sc[2], Current, prec_series, min_sources, query_limit, temp_range)

NextWithRange ==
    \/ ConstructWithRange
    \/ InitialGuess
    \/ IdealScreen
    \/ PreScreen
    \/ SolveOverSeries
    \/ FilterQueryResults
    \/ NextTier
    \/ NoSolutionFound

SpecWithRange == Init /\ [][NextWithRange]_vars

(***************************************************************************)
(* The interval operators applied to operands drawn from a bounded set     *)
(***************************************************************************)
\* a tolerance bound: a non-negative float, or None
Bounds == { Z(n) : n \in 0..MaxTol } \cup {None}

Intervals ==
    { Toleranced(Z(t), p, m) : t \in (-MaxTyp)..MaxTyp, p \in Bounds, m \in Bounds }

ArithInit ==
    /\ SolverIdle
    /\ arith_op = ""
    /\ arith_a \in Intervals
    /\ arith_b \in Intervals
    /\ arith_out = Ok(NoT)
    /\ arith_steps = 0

\* arith_a * arith_b
ApplyMul ==
    /\ arith_op = ""
    /\ arith_op' = "mul"
    /\ arith_out' = mul(arith_a, arith_b)
    /\ UNCHANGED <<arith_a, arith_b, arith_steps>>
    /\ UNCHANGED solver_vars

\* arith_a / arith_b
ApplyTruediv ==
    /\ arith_op = ""
    /\ arith_op' = "truediv"
    /\ arith_out' = truediv(arith_a, arith_b)
    /\ UNCHANGED <<arith_a, arith_b, arith_steps>>
    /\ UNCHANGED solver_vars

\* arith_a + arith_b
ApplyAdd ==
    /\ arith_op = ""
    /\ arith_op' = "add"
    /\ arith_out' = add(arith_a, arith_b)
    /\ UNCHANGED <<arith_a, arith_b, arith_steps>>
    /\ UNCHANGED solver_vars

\* arith_a - arith_b
ApplySub ==
    /\ arith_op = ""
    /\ arith_op' = "sub"
    /\ arith_out' = sub(arith_a, arith_b)
    /\ UNCHANGED <<arith_a, arith_b, arith_steps>>
    /\ UNCHANGED solver_vars

\* arith_a.max_value
ApplyMaxValue ==
    /\ arith_op = ""
    /\ arith_op' = "max_value"
    /\ arith_out' = max_value_read(arith_a)
    /\ UNCHANGED <<arith_a, arith_b, arith_steps>>
    /\ UNCHANGED solver_vars

\* arith_a.min_value
ApplyMinValue ==
    /\ arith_op = ""
    /\ arith_op' = "min_value"
    /\ arith_out' = min_value_read(arith_a)
    /\ UNCHANGED <<arith_a, arith_b, arith_steps>>
    /\ UNCHANGED solver_vars

\* min_typ_max(arith_a.min_value, arith_a.typ, arith_a.max_value)
ApplyRebuild ==
    /\ arith_op = ""
    /\ arith_op' = "rebuild"
    /\ arith_out' = rebuild(arith_a)
    /\ UNCHANGED <<arith_a, arith_b, arith_steps>>
    /\ UNCHANGED solver_vars

\* arith_a + (arith_a - tol_exact(0.0))
ApplyAddSubExactZero ==
    /\ arith_op = ""
    /\ arith_op' = "add_sub_exact_zero"
    /\ arith_out' = add_sub_exact_zero(arith_a)
    /\ UNCHANGED <<arith_a, arith_b, arith_steps>>
    /\ UNCHANGED solver_vars

\* arith_a * k for the float k = arith_b.typ
ApplyMulFloat ==
    /\ arith_op = ""
    /\ arith_op' = "mul_float"
    /\ arith_out' = mul_float(arith_a, arith_b.typ)
    /\ UNCHANGED <<arith_a, arith_b, arith_steps>>
    /\ UNCHANGED solver_vars

ArithNext ==
    \/ ApplyMul
    \/ ApplyTruediv
    \/ ApplyAdd
    \/ ApplySub
    \/ ApplyMaxValue
    \/ ApplyMinValue
    \/ ApplyRebuild
    \/ ApplyAddSubExactZero
    \/ ApplyMulFloat

SpecArith == ArithInit /\ [][ArithNext]_vars

(***************************************************************************)
(* min_typ_max applied to arguments drawn from a bounded set               *)
(***************************************************************************)
\* an Optional[float] argument
OptFloats == { Z(n) : n \in (-MaxTyp)..MaxTyp } \cup {None}

\* arith_a holds the three arguments, arith_b is not used
MinTypMaxInit ==
    /\ SolverIdle
    /\ arith_op = ""
    /\ arith_a \in [min_val : OptFloats, typ_val : OptFloats, max_val : OptFloats]
    /\ arith_b = NoT
    /\ arith_out = Ok(NoT)
    /\ arith_steps = 0

ApplyMinTypMax ==
    /\ arith_op = ""
    /\ arith_op' = "min_typ_max"
    /\ arith_out' = min_typ_max(arith_a.min_val, arith_a.typ_val, arith_a.max_val)
    /\ UNCHANGED <<arith_a, arith_b, arith_steps>>
    /\ UNCHANGED solver_vars

SpecMinTypMax == MinTypMaxInit /\ [][ApplyMinTypMax]_vars

(***************************************************************************)
(* The operators applied one after another, each to the previous result    *)
(***************************************************************************)
\* fully specified operands: positive, negative and asymmetric, across zero
\* and asymmetric, exact
ChainIntervals ==
    { Toleranced(Z(2), Z(1), Z(1)), Toleranced(Z(-2), Z(1), Z(0)),
      Toleranced(Z(0), Z(1), Z(2)), Toleranced(Z(1), Z(0), Z(0)) }

\* float operands
ChainFloats == { Z(-2), Z(0), Q(1, 2), Z(3) }

\* self <op> other for a Toleranced other
apply_interval(op, self, other) ==
    CASE op = "add" -> add(self, other)
      [] op = "sub" -> sub(self, other)
      [] op = "mul" -> mul(self, other)
      [] op = "truediv" -> truediv(self, other)

\* self <op> k for a float k
apply_float(op, self, k) ==
    CASE op = "add_float" -> Ok(add_float(self, k))
      [] op = "sub_float" -> Ok(sub_float(self, k))
      [] op = "rsub_float" -> rsub_float(self, k)
      [] op = "mul_float" -> mul_float(self, k)
      [] op = "truediv_float" -> truediv_float(self, k)

\* arith_out starts as the first interval of the chain
ChainInit ==
    /\ SolverIdle
    /\ arith_op = ""
    /\ arith_a = NoT
    /\ arith_b = NoT
    /\ arith_out \in { Ok(a) : a \in ChainIntervals }
    /\ arith_steps = 0

\* the previous result <op> an interval
ChainInterval ==
    /\ arith_steps < MaxChain
    /\ arith_out.exc = ""
    /\ \E op \in {"add", "sub", "mul", "truediv"}, other \in ChainIntervals :
           /\ arith_op' = op
           /\ arith_a' = arith_out.val
           /\ arith_b' = other
           /\ arith_out' = apply_interval(op, arith_out.val, other)
    /\ arith_steps' = arith_steps + 1
    /\ UNCHANGED solver_vars

\* the previous result <op> a float k, kept in arith_b as tol_exact(k)
ChainFloat ==
    /\ arith_steps < MaxChain
    /\ arith_out.exc = ""
    /\ \E op \in {"add_float", "sub_float", "rsub_float", "mul_float", "truediv_float"},
          k \in ChainFloats :
           /\ arith_op' = op
           /\ arith_a' = arith_out.val
           /\ arith_b' = tol_exact(k)
           /\ arith_out' = apply_float(op, arith_out.val, k)
    /\ arith_steps' = arith_steps + 1
    /\ UNCHANGED solver_vars

ChainNext ==
    \/ ChainInterval
    \/ ChainFloat

SpecChain == ChainInit /\ [][ChainNext]_vars

(***************************************************************************)
(* Claims about solve, checked under Spec                                  *)
(***************************************************************************)
\* C1: whenever a goal resistance of the initial guess is not > 0 (negative or
\* zero), solve ends with IncompatibleVinVoutError and has run neither the ideal
\* screen, nor the pre-screen, nor a catalog query
C1_NonPositiveGoalIsIncompatible ==
    (/\ pc \notin {"new", "config_error", "constructed"}
     /\ (RLe(goals[1], Z(0)) \/ RLe(goals[2], Z(0))))
    => /\ pc = "done"
       /\ result = Raised("IncompatibleVinVoutError")
       /\ vin_screen = Ok(NoT)
       /\ pre_screen = <<>>
       /\ n_queries = 0

C8_ConstructedIsSortedAndLimited ==
    /\ pc = "config_error"
       => (given.min_sources > given.query_limit /\ cons = NoCons)
    /\ pc \notin {"new", "config_error"}
       => /\ given.min_sources <= given.query_limit
          /\ cons.min_sources = given.min_sources
          /\ cons.query_limit = given.query_limit
          /\ cons.min_sources <= cons.query_limit
          /\ Len(cons.prec_series) = Len(given.prec_series)
          /\ \A i \in 1..(Len(cons.prec_series) - 1) :
                 RLe(cons.prec_series[i + 1], cons.prec_series[i])
          /\ \A i \in 1..Len(given.prec_series) :
                 Cardinality({ j \in 1..Len(given.prec_series) :
                                 given.prec_series[j] = given.prec_series[i] })
                 = Cardinality({ j \in 1..Len(cons.prec_series) :
                                 cons.prec_series[j] = given.prec_series[i] })

\* an inverse-variant value constructed from a series given in ascending order
C8_Witness ==
    /\ pc = "constructed"
    /\ cons.inverse
    /\ given.prec_series = <<Z(5), Z(20)>>
    /\ cons.prec_series = <<Z(20), Z(5)>>

C17_NoRangeNeedsNoTcr ==
    cons.temp_range = NoT =>
        /\ result # Raised("ValueError: No TCR Data")
        /\ result.kind = "solution" =>
               \A i \in 1..Len(vo_set) :
                   Ok(vo_set[i]) = compute_objective(cons, get_resistance(result.R_h),
                                                     get_resistance(result.R_l),
                                                     tol_exact(Z(1)), tol_exact(Z(1)))

C9_MulTakesExtremeCorners ==
    (/\ arith_op = "mul"
     /\ arith_a.tol_plus # None /\ arith_a.tol_minus # None
     /\ arith_b.tol_plus # None /\ arith_b.tol_minus # None)
    => LET corners ==
               { RMul(x, y) :
                   x \in {RSub(arith_a.typ, arith_a.tol_minus),
                          RAdd(arith_a.typ, arith_a.tol_plus)},
                   y \in {RSub(arith_b.typ, arith_b.tol_minus),
                          RAdd(arith_b.typ, arith_b.tol_plus)} }
           Extremes(hi, lo) ==
               /\ hi \in corners
               /\ lo \in corners
               /\ \A c \in corners : RLe(c, hi) /\ RLe(lo, c)
       IN  /\ arith_out.exc = ""
           /\ arith_out.val.typ = RMul(arith_a.typ, arith_b.typ)
           /\ Extremes(RAdd(arith_out.val.typ, arith_out.val.tol_plus),
                       RSub(arith_out.val.typ, arith_out.val.tol_minus))

\* the interval 0 +2 -2, which crosses zero, was multiplied by a positive
\* interval of non-zero width
C9_Witness ==
    /\ arith_op = "mul"
    /\ arith_a = Toleranced(Z(0), Z(2), Z(2))
    /\ arith_b = Toleranced(Z(2), Z(1), Z(1))
    /\ arith_out = Ok(Toleranced(Z(0), Z(6), Z(6)))

\* C10: for fully specified a and b, a / b raises ZeroDivisionError whenever
\* b.min <= 0 <= b.max, and otherwise returns a times the reciprocal interval of
\* b, whose typ is 1 / b.typ and whose bounds are 1 / b.max and 1 / b.min
C10_DivisionByZeroInterval ==
    (/\ arith_op = "truediv"
     /\ arith_a.tol_plus # None /\ arith_a.tol_minus # None
     /\ arith_b.tol_plus # None /\ arith_b.tol_minus # None)
    => LET b_min == RSub(arith_b.typ, arith_b.tol_minus)
           b_max == RAdd(arith_b.typ, arith_b.tol_plus)
           IsInverse(inv) ==
               /\ inv.typ = RDiv(Z(1), arith_b.typ)
               /\ RAdd(inv.typ, inv.tol_plus) = RDiv(Z(1), b_min)
               /\ RSub(inv.typ, inv.tol_minus) = RDiv(Z(1), b_max)
       IN  IF RLe(b_min, Z(0)) /\ RLe(Z(0), b_max)
           THEN arith_out.exc = "ZeroDivisionError"
           ELSE /\ IsInverse(reciprocal(arith_b))
                /\ arith_out = mul(arith_a, reciprocal(arith_b))
                /\ arith_out.exc = ""

\* a division by an interval with a non-zero typ and 0 as its lower endpoint
\* has raised
C10_Witness ==
    /\ arith_op = "truediv"
    /\ arith_a = Toleranced(Z(1), Z(1), Z(1))
    /\ arith_b = Toleranced(Z(2), Z(1), Z(2))
    /\ arith_out.exc = "ZeroDivisionError"

\* C11: a missing bound is never read as a number.  max_value raises ValueError
\* exactly when tol_plus is None and otherwise returns typ + tol_plus;
\* min_value raises ValueError exactly when tol_minus is None and otherwise
\* returns typ - tol_minus; and +, -, *, / between two intervals raise
\* ValueError whenever either operand lacks tol_plus or tol_minus.
C11_MissingBoundRaises ==
    /\ arith_op = "max_value" =>
           IF arith_a.tol_plus = None
           THEN arith_out.exc = "ValueError"
           ELSE arith_out = Ok(RAdd(arith_a.typ, arith_a.tol_plus))
    /\ arith_op = "min_value" =>
           IF arith_a.tol_minus = None
           THEN arith_out.exc = "ValueError"
           ELSE arith_out = Ok(RSub(arith_a.typ, arith_a.tol_minus))
    /\ (/\ arith_op \in {"add", "sub", "mul", "truediv"}
        /\ None \in {arith_a.tol_plus, arith_a.tol_minus,
                     arith_b.tol_plus, arith_b.tol_minus})
       => arith_out.exc = "ValueError"

\* an addition whose right operand has no upper bound has raised
C11_Witness ==
    /\ arith_op = "add"
    /\ arith_a = Toleranced(Z(1), Z(1), Z(1))
    /\ arith_b = Toleranced(Z(2), None, Z(1))
    /\ arith_out.exc = "ValueError"

C14_AddSubZeroReproducesBounds ==
    (/\ arith_op = "add_sub_exact_zero"
     /\ arith_a.tol_plus # None /\ arith_a.tol_minus # None)
    => /\ arith_out.exc = ""
       /\ min_value(arith_out.val) = min_value(arith_a)
       /\ max_value(arith_out.val) = max_value(arith_a)

\* C14 amended: for a fully specified a, a - exact(0) is a itself, so
\* a + (a - exact(0)) is a + a: its typ, min_value and max_value are twice
\* those of a, and they equal a's only when a is exactly 0.
C14_AddSubZeroDoublesBounds ==
    (/\ arith_op = "add_sub_exact_zero"
     /\ arith_a.tol_plus # None /\ arith_a.tol_minus # None)
    => /\ sub(arith_a, tol_exact(Z(0))) = Ok(arith_a)
       /\ arith_out.exc = ""
       /\ arith_out.val.typ = RMul(Z(2), arith_a.typ)
       /\ min_value(arith_out.val) = RMul(Z(2), min_value(arith_a))
       /\ max_value(arith_out.val) = RMul(Z(2), max_value(arith_a))
       /\ (/\ min_value(arith_out.val) = min_value(arith_a)
           /\ max_value(arith_out.val) = max_value(arith_a))
          <=> arith_a = tol_exact(Z(0))

\* the interval [0, 3] around 1 has become [0, 6] around 2
C14_Witness ==
    /\ arith_op = "add_sub_exact_zero"
    /\ arith_a = Toleranced(Z(1), Z(2), Z(1))
    /\ arith_out = Ok(Toleranced(Z(2), Z(4), Z(2)))

\* C20: for every fully specified a and every float k, a * k has the same typ,
\* min_value and max_value as the interval product a * tol_exact(k).
C20_ScalarMulAgreesWithIntervalMul ==
    (/\ arith_op = "mul_float"
     /\ arith_a.tol_plus # None /\ arith_a.tol_minus # None)
    => LET Agree(product) ==
               /\ arith_out.exc = "" /\ product.exc = ""
               /\ arith_out.val.typ = product.val.typ
               /\ min_value(arith_out.val) = min_value(product.val)
               /\ max_value(arith_out.val) = max_value(product.val)
       IN  Agree(mul(arith_a, tol_exact(arith_b.typ)))

(***************************************************************************)
(* Claims about min_typ_max, checked under SpecMinTypMax                   *)
(***************************************************************************)
\* C12: min_typ_max raises exactly when fewer than two of its three arguments
\* are present, or the present ones are out of order (min <= typ <= max, or
\* min <= max when typ is absent).  Otherwise the result's typ is the given
\* typ, or the midpoint of min and max when typ is absent; each given bound is
\* the result's min_value / max_value; and the side whose bound is absent has
\* no tolerance (None).
C12_MinTypMaxBuildsGivenBounds ==
    arith_op = "min_typ_max" =>
        LET lo == arith_a.min_val
            ty == arith_a.typ_val
            hi == arith_a.max_val
            present == Cardinality({ k \in {"min", "typ", "max"} :
                           IF k = "min" THEN lo # None
                           ELSE IF k = "typ" THEN ty # None ELSE hi # None })
            ordered ==
                /\ (lo # None /\ ty # None) => RLe(lo, ty)
                /\ (ty # None /\ hi # None) => RLe(ty, hi)
                /\ (lo # None /\ hi # None) => RLe(lo, hi)
            r == arith_out.val
        IN  IF present < 2 \/ ~ordered
            THEN arith_out.exc = "ValueError"
            ELSE /\ arith_out.exc = ""
                 /\ IF ty # None THEN r.typ = ty
                    ELSE RAdd(r.typ, r.typ) = RAdd(lo, hi)
                 /\ IF lo # None
                    THEN r.tol_minus # None /\ RSub(r.typ, r.tol_minus) = lo
                    ELSE r.tol_minus = None
                 /\ IF hi # None
                    THEN r.tol_plus # None /\ RAdd(r.typ, r.tol_plus) = hi
                    ELSE r.tol_plus = None

\* min and max alone give the midpoint; typ and min alone leave the top open
C12_Witness ==
    /\ arith_op = "min_typ_max"
    /\ \/ /\ arith_a = [min_val |-> Z(-1), typ_val |-> None, max_val |-> Z(2)]
          /\ arith_out = Ok(Toleranced(Q(1, 2), Q(3, 2), Q(3, 2)))
       \/ /\ arith_a = [min_val |-> Z(0), typ_val |-> Z(1), max_val |-> None]
          /\ arith_out = Ok(Toleranced(Z(1), None, Z(1)))

(***************************************************************************)
(* Claims about sequences of operators, checked under SpecChain            *)
(***************************************************************************)
\* C19: starting from fully specified intervals with tol_plus >= 0 and
\* tol_minus >= 0, every interval +, -, *, every / by an interval that does
\* not contain 0, every float + and -, every * by a float and every / by a
\* positive float succeeds, and every result, after any number of such
\* operators, again has tol_plus >= 0 and tol_minus >= 0, hence
\* min_value <= typ <= max_value.
C19_ToleranceStaysNonNegative ==
    arith_steps > 0 =>
        LET covered ==
                \/ arith_op \in {"add", "sub", "mul", "add_float", "sub_float",
                                 "rsub_float", "mul_float"}
                \/ arith_op = "truediv" /\ ~in_range_float(arith_b, Z(0))
                \/ arith_op = "truediv_float" /\ RLt(Z(0), arith_b.typ)
            r == arith_out.val
        IN  /\ covered => arith_out.exc = ""
            /\ arith_out.exc = "" =>
                   /\ r.tol_plus # None /\ r.tol_minus # None
                   /\ RLe(Z(0), r.tol_plus) /\ RLe(Z(0), r.tol_minus)
                   /\ RLe(min_value(r), r.typ) /\ RLe(r.typ, max_value(r))

\* [-2, 1] / [-2, -1] gave [-1, 2], and that times -2.0 gave 0 +4/-2
C19_Witness ==
    /\ arith_steps = 2
    /\ arith_op = "mul_float"
    /\ arith_a = Toleranced(Z(0), Z(2), Z(1))
    /\ arith_b = tol_exact(Z(-2))
    /\ arith_out = Ok(Toleranced(Z(0), Z(4), Z(2)))

====
